------------------------------ MODULE Spec2Model ------------------------------
(***************************************************************************)
(* Risk scoring engine (backend/app/services/detection.py), its logging    *)
(* decorator (backend/app/core/logging_config.py) and the model ensemble   *)
(* (backend/app/services/ai_models.py).                                    *)
(*                                                                         *)
(* A text is a sequence of Unicode code points.  Scores, confidences and   *)
(* detector contributions are integers in hundredths (0.15 is 15); the     *)
(* rounding of the IEEE sums is not modelled.                              *)
(***************************************************************************)
EXTENDS Integers, Sequences, FiniteSets, TLC

Min(a, b) == IF a <= b THEN a ELSE b

(***************************************************************************)
(* Character classes of Python's str methods and of the re module, on the  *)
(* repertoire the inputs are drawn from: ASCII, the CJK ideographs         *)
(* U+4E00..U+9FFF, the ideographic space, comma and full stop, the         *)
(* fullwidth forms U+FF01..U+FF5E, and the surrogates U+D800..U+DFFF.      *)
(***************************************************************************)
IsCJK(c) == c >= 19968 /\ c <= 40959

IsSurrogate(c) == c >= 55296 /\ c <= 57343

IsSpace(c) == (c >= 9 /\ c <= 13) \/ (c >= 28 /\ c <= 32) \/ c = 12288

IsDigit(c) == (c >= 48 /\ c <= 57) \/ (c >= 65296 /\ c <= 65305)

DigitValue(c) == IF c <= 57 THEN c - 48 ELSE c - 65296

IsUpper(c) == (c >= 65 /\ c <= 90) \/ (c >= 65313 /\ c <= 65338)

IsLetter(c) ==
  \/ (c >= 65 /\ c <= 90) \/ (c >= 97 /\ c <= 122)
  \/ (c >= 65313 /\ c <= 65338) \/ (c >= 65345 /\ c <= 65370)

IsWord(c) == IsLetter(c) \/ IsDigit(c) \/ c = 95 \/ IsCJK(c)

\* The punctuation the whitelist of _preprocess_text keeps: . , ! ? ; : ( )
\* and the fullwidth ( ) ! ? ; : , with the ideographic comma and full stop.
KeptPunctuation ==
  {46, 44, 33, 63, 59, 58, 40, 41, 65288, 65289, 65281, 65311, 65307, 65306,
   12289, 12290, 65292}

Lower(c) == IF IsUpper(c) THEN c + 32 ELSE c

\* keyword in text
Contains(text, w) ==
  \E i \in 1..(Len(text) - Len(w) + 1) : \A j \in 1..Len(w) : text[i + j - 1] = w[j]

\* keywords_db["financial_fraud"]: 52 phrases, in the order of the source list.
financial_fraud ==
  <<
    <<20445, 35777, 25910, 30410>>, <<26080, 39118, 38505, 25237, 36164>>,
    <<26376, 20837, 19975, 20803>>, <<31283, 36186, 19981, 36180>>, <<39640, 25910, 30410>>,
    <<20869, 24149, 28040, 24687>>, <<32929, 31080, 25512, 33616>>,
    <<26399, 36135, 40644, 37329>>, <<34394, 25311, 36135, 24065>>,
    <<25968, 23383, 36135, 24065>>, <<25366, 30719>>, <<105, 99, 111>>,
    <<21306, 22359, 38142, 25237, 36164>>, <<22806, 27719, 20132, 26131>>,
    <<21407, 27833, 25237, 36164>>, <<36149, 37329, 23646, 25237, 36164>>,
    <<37038, 24065, 21345>>, <<33402, 26415, 21697, 25237, 36164>>,
    <<32418, 37202, 25237, 36164>>, <<20256, 38144>>, <<24494, 21830>>, <<20195, 29702>>,
    <<21152, 30431, 36153>>, <<20837, 20250, 36153>>, <<20250, 21592, 36153>>,
    <<25289, 20154, 22836>>, <<23618, 32423, 20998, 38144>>, <<37329, 23383, 22612>>,
    <<22810, 23618, 27425, 33829, 38144>>, <<26080, 25269, 25276, 36151, 27454>>,
    <<31186, 25209>>, <<40657, 25143, 36151, 27454>>, <<24449, 20449, 20462, 22797>>,
    <<20195, 21150, 20449, 29992, 21345>>, <<33457, 21591, 25552, 29616>>,
    <<20511, 21591, 22871, 29616>>, <<32593, 36151>>, <<35064, 36151>>,
    <<39640, 21033, 36151>>, <<20449, 29992, 21345, 22871, 29616>>, <<112, 111, 115, 26426>>,
    <<21047, 21333>>, <<20195, 36824, 20449, 29992, 21345>>, <<38480, 26102, 20248, 24800>>,
    <<39532, 19978, 34892, 21160>>, <<26426, 20250, 38590, 24471>>,
    <<19981, 35201, 38169, 36807>>, <<31435, 21363, 25250, 36141>>,
    <<20165, 38480, 20170, 22825>>, <<21517, 39069, 26377, 38480>>,
    <<20808, 21040, 20808, 24471>>, <<32477, 23494, 28040, 24687>>
  >>

\* keywords_db["medical_fraud"]: 48 phrases, in the order of the source list.
medical_fraud ==
  <<
    <<21253, 27835, 30334, 30149>>, <<31070, 22855, 30103, 25928>>,
    <<31062, 20256, 31192, 26041>>, <<19968, 27425, 26681, 27835>>,
    <<27704, 19981, 22797, 21457>>, <<33647, 21040, 30149, 38500>>,
    <<31435, 31487, 35265, 24433>>, <<22855, 36857, 33324, 24247, 22797>>,
    <<32477, 23545, 26377, 25928>>, <<49, 48, 48, 37, 27835, 24840>>,
    <<19977, 22825, 35265, 25928>>, <<19968, 21608, 24247, 22797>>,
    <<21307, 38498, 19981, 21578, 35785, 20320>>, <<21307, 29983, 37117, 22312, 29992>>,
    <<19987, 23478, 25512, 33616>>, <<26435, 23041, 35748, 35777>>,
    <<22269, 38469, 39046, 20808>>, <<35834, 36125, 23572, 22870>>,
    <<32654, 22269, 36827, 21475>>, <<24503, 22269, 25216, 26415>>,
    <<20013, 31185, 38498, 30740, 21457>>, <<20891, 24037, 25216, 26415>>,
    <<33322, 22825, 31185, 25216>>, <<30284, 30151, 20811, 26143>>,
    <<24310, 24180, 30410, 23551>>, <<25490, 27602, 20859, 39068>>,
    <<20943, 32933, 31070, 22120>>, <<22766, 38451, 34917, 32958>>,
    <<20016, 33016, 32654, 30333>>, <<25239, 34928, 32769>>, <<22686, 39640, 31070, 22120>>,
    <<26126, 30446, 25252, 30524>>, <<25252, 32925, 20859, 32963>>,
    <<34917, 33041, 30410, 26234>>, <<24378, 36523, 20581, 20307>>, <<20445, 20581, 21697>>,
    <<33829, 20859, 21697>>, <<29305, 25928, 33647>>, <<20559, 26041>>, <<22303, 26041>>,
    <<27665, 38388, 39564, 26041>>, <<23467, 24311, 31192, 26041>>, <<21476, 26041>>,
    <<20013, 33647, 31192, 26041>>, <<19977, 26080, 20135, 21697>>, <<20551, 33647>>,
    <<36829, 31105, 33647>>, <<28608, 32032, 33647>>
  >>

\* keywords_db["general_fraud"]: 41 phrases, in the order of the source list.
general_fraud ==
  <<
    <<21152, 24494, 20449>>, <<32852, 31995, 113, 113>>, <<31169, 20449, 25105>>,
    <<30041, 30005, 35805>>, <<25195, 30721, 36827, 32676>>, <<24494, 20449, 21495>>,
    <<113, 113, 32676>>, <<30005, 35805, 21672, 35810>>, <<22312, 32447, 23458, 26381>>,
    <<32852, 31995, 23458, 26381>>, <<36716, 36134>>, <<27719, 27454>>,
    <<25903, 20184, 23453>>, <<24494, 20449, 25903, 20184>>, <<38134, 34892, 21345>>,
    <<25171, 27454>>, <<39044, 20184, 27454>>, <<23450, 37329>>, <<25276, 37329>>,
    <<20445, 35777, 37329>>, <<25163, 32493, 36153>>, <<20013, 22870>>,
    <<24685, 21916, 33719, 22870>>, <<24184, 36816, 29992, 25143>>,
    <<20813, 36153, 39046, 21462>>, <<48, 20803, 36141>>, <<31186, 26432>>, <<29305, 20215>>,
    <<28165, 20179>>, <<20111, 26412, 29993, 21334>>, <<36339, 27004, 20215>>,
    <<36214, 32039>>, <<31435, 21363>>, <<39532, 19978>>, <<24555, 36895>>, <<32039, 24613>>,
    <<38480, 26102>>, <<25130, 27490, 20170, 26202>>, <<26368, 21518, 19968, 22825>>,
    <<38169, 36807, 21518, 24724>>, <<26426, 19981, 21487, 22833>>
  >>

\* keywords_db["emotional_manipulation"]: 18 phrases, in the order of the source list.
emotional_manipulation ==
  <<
    <<21487, 24604>>, <<25937, 25937>>, <<24110, 24110>>, <<27714, 21161>>, <<25424, 27454>>,
    <<29233, 24515>>, <<21892, 24515>>, <<20570, 22909, 20107>>, <<31215, 24503>>,
    <<21151, 24503>>, <<25253, 24212>>, <<22240, 26524>>, <<32769, 20154>>, <<23401, 23376>>,
    <<30149, 20154>>, <<27531, 30142>>, <<22256, 38590>>, <<36139, 22256>>
  >>

\* keywords_db.items(), in insertion order.
keywords_db ==
  << [category |-> "financial_fraud", keywords |-> financial_fraud],
     [category |-> "medical_fraud", keywords |-> medical_fraud],
     [category |-> "general_fraud", keywords |-> general_fraud],
     [category |-> "emotional_manipulation", keywords |-> emotional_manipulation] >>

(***************************************************************************)
(* _preprocess_text: lower(), re.sub(r'\s+', ' ', text).strip(), then the  *)
(* removal of every character outside the whitelist.                       *)
(***************************************************************************)
LowerText(text) == [i \in 1..Len(text) |-> Lower(text[i])]

\* re.sub(r'\s+', ' ', text): every maximal run of whitespace becomes one space.
CollapseSpaces(text) ==
  LET marked == [i \in 1..Len(text) |->
                   IF ~IsSpace(text[i]) THEN text[i]
                   ELSE IF i > 1 /\ IsSpace(text[i - 1]) THEN -1 ELSE 32]
      kept(c) == c # -1
  IN  SelectSeq(marked, kept)

\* str.strip()
Strip(text) ==
  LET solid == {i \in 1..Len(text) : ~IsSpace(text[i])}
  IN  IF solid = {} THEN <<>>
      ELSE SubSeq(text, CHOOSE i \in solid : \A j \in solid : i <= j,
                        CHOOSE i \in solid : \A j \in solid : i >= j)

Whitelisted(c) == IsCJK(c) \/ IsWord(c) \/ IsSpace(c) \/ c \in KeptPunctuation

_preprocess_text(text) ==
  SelectSeq(Strip(CollapseSpaces(LowerText(text))), Whitelisted)

(***************************************************************************)
(* The detectors.                                                          *)
(***************************************************************************)
\* a variant of the count that takes a keyword only if it occurs once
OccursTwice(text, w) ==
  \E i, j \in 1..(Len(text) - Len(w) + 1) :
    /\ i # j
    /\ \A n \in 1..Len(w) : text[i + n - 1] = w[n] /\ text[j + n - 1] = w[n]

SingleOccurrences(text, keywords) ==
  Cardinality({k \in 1..Len(keywords) :
                 Contains(text, keywords[k]) /\ ~OccursTwice(text, keywords[k])})

_count_keyword_matches(text, keywords) ==
  Cardinality({k \in 1..Len(keywords) : Contains(text, keywords[k])})

\* [kw for kw in keywords if kw in text]
matched_keywords(text, keywords) ==
  LET hit(kw) == Contains(text, kw) IN SelectSeq(keywords, hit)

\* seq[:n]
Take(seq, n) == SubSeq(seq, 1, Min(n, Len(seq)))

excessive_adjectives ==
  << <<31070, 22855>>, <<32477, 23545>>, <<23436, 32654>>, <<39030, 32423>>,
     <<26497, 21697>>, <<21490, 19978, 26368>>, <<19990, 30028, 32423>> >>

\* [!！]{2,}|[?？]{2,}
RepeatedMarks(text) ==
  \E i \in 1..(Len(text) - 1) :
    \/ {text[i], text[i + 1]} \subseteq {33, 65281}
    \/ {text[i], text[i + 1]} \subseteq {63, 65311}

\* \d+<c>: a digit directly followed by the character c.
DigitThen(text, c) ==
  \E i \in 1..(Len(text) - 1) : IsDigit(text[i]) /\ text[i + 1] = c

\* \d+倍|百分之\d+|\d+%
ExaggeratedNumber(text) ==
  \/ DigitThen(text, 20493)
  \/ \E i \in 1..(Len(text) - 3) :
       SubSeq(text, i, i + 2) = <<30334, 20998, 20043>> /\ IsDigit(text[i + 3])
  \/ DigitThen(text, 37)

_detect_language_patterns(text) ==
  LET marks == IF RepeatedMarks(text) THEN 10 ELSE 0
      adjectives ==
        5 * Cardinality({k \in 1..Len(excessive_adjectives) :
                            Contains(text, excessive_adjectives[k])})
      numbers == IF ExaggeratedNumber(text) THEN 5 ELSE 0
  IN  Min(marks + adjectives + numbers, 30)

\* 微信|qq|电话|手机|联系
ContactWord(text) ==
  \/ Contains(text, <<24494, 20449>>) \/ Contains(text, <<113, 113>>)
  \/ Contains(text, <<30005, 35805>>) \/ Contains(text, <<25163, 26426>>)
  \/ Contains(text, <<32852, 31995>>)

\* \d{11}
ElevenDigits(text) ==
  \E i \in 1..(Len(text) - 10) : \A j \in i..(i + 10) : IsDigit(text[j])

\* \d or \w
InClass(c, class) == IF class = "d" THEN IsDigit(c) ELSE IsWord(c)

\* <prefix>\s*<a character of the class>: the prefix, any whitespace, then the class.
PrefixSpacesThen(text, prefix, class) ==
  \E i \in 1..(Len(text) - Len(prefix) + 1) :
    /\ SubSeq(text, i, i + Len(prefix) - 1) = prefix
    /\ \E j \in (i + Len(prefix))..Len(text) :
         /\ InClass(text[j], class)
         /\ \A k \in (i + Len(prefix))..(j - 1) : IsSpace(text[k])

_detect_contact_info(text) ==
  LET hits ==
        (IF ContactWord(text) THEN 1 ELSE 0)
        + (IF ElevenDigits(text) THEN 1 ELSE 0)
        \* qq:\s*\d+
        + (IF PrefixSpacesThen(text, <<113, 113, 58>>, "d") THEN 1 ELSE 0)
        \* 微信:\s*\w+
        + (IF PrefixSpacesThen(text, <<24494, 20449, 58>>, "w") THEN 1 ELSE 0)
  IN  Min(5 * hits, 20)

urgency_words ==
  << <<36214, 32039>>, <<31435, 21363>>, <<39532, 19978>>, <<24555, 36895>>,
     <<32039, 24613>>, <<38480, 26102>>, <<25130, 27490>>, <<26368, 21518>> >>

_detect_urgency(text) ==
  LET count == Cardinality({k \in 1..Len(urgency_words) :
                               Contains(text, urgency_words[k])})
  IN  Min(count * 5, 20)

\* The places of (\d+)%: the first digit of every maximal run of digits that a
\* percent sign follows, with the place of that sign.
PercentRuns(text) ==
  {r \in (1..Len(text)) \X (1..Len(text)) :
     /\ r[1] < r[2] /\ text[r[2]] = 37
     /\ \A j \in r[1]..(r[2] - 1) : IsDigit(text[j])
     /\ (r[1] = 1 \/ ~IsDigit(text[r[1] - 1]))}

\* int(match) > 20, on the digits text[from..to]
RECURSIVE Exceeds20(_, _, _)
Exceeds20(text, from, to) ==
  IF from > to THEN FALSE
  ELSE IF DigitValue(text[from]) = 0 THEN Exceeds20(text, from + 1, to)
  ELSE \/ to - from >= 2
       \/ /\ to - from = 1
          /\ 10 * DigitValue(text[from]) + DigitValue(text[to]) > 20

\* (\d+)%.*收益|收益.*(\d+)%   ('.' matches no line feed)
YieldClaim(text) ==
  \E i \in 1..(Len(text) - 1), j \in 1..(Len(text) - 1) :
    /\ IsDigit(text[i]) /\ text[i + 1] = 37
    /\ SubSeq(text, j, j + 1) = <<25910, 30410>>
    /\ \/ j >= i + 2 /\ \A k \in (i + 2)..(j - 1) : text[k] # 10
       \/ i >= j + 2 /\ \A k \in (j + 2)..(i - 1) : text[k] # 10

_detect_suspicious_numbers(text) ==
  LET rates ==
        IF YieldClaim(text)
        THEN 10 * Cardinality({r \in PercentRuns(text) :
                                  Exceeds20(text, r[1], r[2] - 1)})
        ELSE 0
      \* (\d+)万, (\d+)千, (\d+)元
      money ==
        (IF DigitThen(text, 19975) THEN 5 ELSE 0)
        + (IF DigitThen(text, 21315) THEN 5 ELSE 0)
        + (IF DigitThen(text, 20803) THEN 5 ELSE 0)
  IN  Min(rates + money, 30)

(***************************************************************************)
(* _perform_detection.  A reason is a record naming the message, with the  *)
(* match count and the category the keyword message is formatted with.     *)
(***************************************************************************)
Reason(kind, n, category) == [kind |-> kind, n |-> n, category |-> category]

\* a variant of the suggestions that gives every category the same one
SameForAll(category) == <<"beware_of_transfers">>

\* The suggestions appended for a category that fired.
CategorySuggestions(category) ==
  IF category = "financial_fraud"
  THEN <<"invest_with_caution", "distrust_guaranteed_returns">>
  ELSE IF category = "medical_fraud"
  THEN <<"see_a_regular_hospital", "supplements_are_no_medicine">>
  ELSE IF category = "general_fraud"
  THEN <<"beware_of_transfers">>
  ELSE <<>>

\* The element of a singleton.  Only({e(x) : x \in {v}}) is e(v) with v
\* evaluated once.
Only(S) == CHOOSE x \in S : TRUE

NoFindings ==
  [risk_score |-> 0, keywords_found |-> <<>>, categories |-> <<>>,
   reasons |-> <<>>, suggestions |-> <<>>]

\* one round of the loop over keywords_db.items(): category i, with its number
\* of matches
CategoryStep(text, i, acc, matches) ==
  LET category == keywords_db[i].category
      keywords == keywords_db[i].keywords
      category_score == Min(matches * 15, 60)
  IN  IF matches > 0
      THEN [risk_score |-> acc.risk_score + category_score,
            keywords_found |->
              acc.keywords_found \o Take(matched_keywords(text, keywords), 5),
            categories |-> Append(acc.categories, category),
            reasons |-> Append(acc.reasons, Reason("keywords", matches, category)),
            suggestions |-> acc.suggestions \o CategorySuggestions(category)]
      ELSE acc

\* 1. the loop over keywords_db.items(), from category i on
RECURSIVE KeywordPass(_, _, _)
KeywordPass(text, i, acc) ==
  IF i > Len(keywords_db) THEN acc
  ELSE Only({ KeywordPass(text, i + 1, next) :
              next \in { CategoryStep(text, i, acc, matches) :
                         matches \in {_count_keyword_matches(text, keywords_db[i].keywords)} } })

\* 2. language patterns
PatternStep(s, pattern_score) ==
  IF pattern_score > 10
  THEN [s EXCEPT !.risk_score = @ + pattern_score,
                 !.reasons = Append(@, Reason("language_pattern", 0, ""))]
  ELSE s

\* 3. contact information
ContactStep(s, contact_score) ==
  IF contact_score > 0 /\ s.risk_score > 0
  THEN [s EXCEPT !.risk_score = @ + contact_score,
                 !.reasons = Append(@, Reason("contact_with_other_risk", 0, "")),
                 !.suggestions = Append(@, "do_not_add_strangers")]
  ELSE s

\* 4. urgency
UrgencyStep(s, urgency_score) ==
  IF urgency_score > 10
  THEN [s EXCEPT !.risk_score = @ + urgency_score,
                 !.reasons = Append(@, Reason("urgency", 0, "")),
                 !.suggestions = Append(@, "think_calmly")]
  ELSE s

\* 5. numbers
NumberStep(s, number_score) ==
  IF number_score > 0
  THEN [s EXCEPT !.risk_score = @ + number_score,
                 !.reasons = Append(@, Reason("suspicious_numbers", 0, ""))]
  ELSE s

\* a variant of the clamp that leaves the sum as it is
Unclamped(risk_score) == risk_score

\* risk_score = min(risk_score, 1.0)
ClampScore(risk_score) == Min(risk_score, 100)

\* a variant of the levels that knows one level only
AlwaysDanger(risk_score) == "danger"

\* Danger from 0.7, Warning from 0.4, otherwise Safe
LevelOf(risk_score) ==
  IF risk_score >= 70 THEN "danger"
  ELSE IF risk_score >= 40 THEN "warning"
  ELSE "safe"

MessageOf(level) ==
  IF level = "danger" THEN "high_risk_stop_watching"
  ELSE IF level = "warning" THEN "suspicious_be_careful"
  ELSE "no_obvious_risk"

\* the level, the general suggestions and the DetectionResult
BuildResult(s, risk_score, detection_id) ==
  LET level == LevelOf(risk_score) IN
  [level |-> level, score |-> risk_score, confidence |-> 80,
   message |-> MessageOf(level), reasons |-> s.reasons,
   suggestions |->
     IF level # "safe"
     THEN s.suggestions \o <<"ask_family_or_professionals", "be_alert_to_transfers">>
     ELSE s.suggestions,
   categories |-> s.categories, keywords |-> s.keywords_found,
   detection_id |-> detection_id]

_perform_detection(text, detection_id) ==
  Only({ BuildResult(s5, ClampScore(s5.risk_score), detection_id) :
    s5 \in { NumberStep(s4, number_score) :
      number_score \in {_detect_suspicious_numbers(text)},
      s4 \in { UrgencyStep(s3, urgency_score) :
        urgency_score \in {_detect_urgency(text)},
        s3 \in { ContactStep(s2, contact_score) :
          contact_score \in {_detect_contact_info(text)},
          s2 \in { PatternStep(s1, pattern_score) :
            pattern_score \in {_detect_language_patterns(text)},
            s1 \in {KeywordPass(text, 1, NoFindings)} } } } } })
(***************************************************************************)
(* The cache key: the MD5 digest of the UTF-8 encoding of the text as it   *)
(* was passed in.  Distinct byte strings have distinct digests, so the key *)
(* is kept as the byte string; str.encode raises UnicodeEncodeError on a   *)
(* surrogate.                                                              *)
(***************************************************************************)
Utf8(c) ==
  IF c < 128 THEN <<c>>
  ELSE IF c < 2048 THEN <<192 + (c \div 64), 128 + (c % 64)>>
  ELSE <<224 + (c \div 4096), 128 + ((c \div 64) % 64), 128 + (c % 64)>>

RECURSIVE Encode(_, _)
Encode(text, i) ==
  IF i > Len(text) THEN <<>> ELSE Utf8(text[i]) \o Encode(text, i + 1)

EncodeRaises(text) == \E i \in 1..Len(text) : IsSurrogate(text[i])

_generate_cache_key(text) == Encode(text, 1)

(***************************************************************************)
(* Texts.  Filler(k) is a one-character text on which no detector fires;   *)
(* the fillers are pairwise different.                                     *)
(***************************************************************************)
\* "测试文本", the text initialize() and health_check() detect: no detector fires
TestText == <<27979, 35797, 25991, 26412>>

\* "保证收益 高收益 稳赚不赔": three financial_fraud keywords
WarningText ==
  <<20445, 35777, 25910, 30410, 32, 39640, 25910, 30410, 32, 31283, 36186, 19981, 36180>>

\* "传销微商代理网贷裸贷偏方土方古方假药": five financial_fraud and four
\* medical_fraud keywords, 1.2 before the clamp
DangerText ==
  <<20256, 38144, 24494, 21830, 20195, 29702, 32593, 36151, 35064, 36151,
    20559, 26041, 22303, 26041, 21476, 26041, 20551, 33647>>

\* a lone surrogate, as json.loads gives for "\ud800": it cannot be encoded
SurrogateText == <<55296>>

SampleTexts == {TestText, WarningText, DangerText, SurrogateText}

\* the k-th CJK ideograph from U+4E00, as a text
Filler(k) == <<19968 + k>>

\* _perform_detection on the preprocessed sample texts, evaluated once
Detections ==
  [text \in SampleTexts |-> _perform_detection(_preprocess_text(text), 0)]

(***************************************************************************)
(* The engine.  DetectionResult objects live in heap, a sequence indexed   *)
(* by object identity; cache is the insertion-ordered dict from key to     *)
(* object, as a sequence of [key, obj]; statistics.avg_processing_time is  *)
(* kept as the fraction time_sum / total_detections.                       *)
(***************************************************************************)
VARIABLES
  cache,          \* self.cache
  heap,           \* the DetectionResult objects created so far
  statistics,     \* self.statistics
  is_initialized, \* self.is_initialized
  closed,         \* cleanup() has run (application shutdown)
  uuid,           \* the next value of uuid.uuid4()
  calls,          \* the detect_text calls that have completed, in order
  b_state,        \* detect_batch: "idle", "gathering" or "returned"
  b_texts,        \* detect_batch: its argument
  b_task,         \* detect_batch: the state of each detect_single task
  semaphore,      \* detect_batch: the value of the asyncio.Semaphore
  b_results,      \* detect_batch: what each finished task returned
  b_return,       \* detect_batch: the list it returned
  models,         \* AIModelManager.models, in insertion order
  e_state,        \* ensemble_predict: "idle", "gathering" or "returned"
  e_task,         \* ensemble_predict: the state of each predict task
  e_results,      \* ensemble_predict: what gather collected from each task
  e_return,       \* ensemble_predict: the dict it returned
  arg,            \* a function applied on its own: its argument
  out,            \* a function applied on its own: <<>>, then <<its value>>
  t_tasks,        \* TrainingService.tasks, by task id
  t_run,          \* run_training: where the coroutine of each task stands
  t_stop          \* stop_training: the calls that returned True

engine_vars == <<cache, heap, statistics, is_initialized, closed, uuid, calls>>

batch_vars == <<b_state, b_texts, b_task, semaphore, b_results, b_return>>

ensemble_vars == <<models, e_state, e_task, e_results, e_return>>

function_vars == <<arg, out>>

training_vars == <<t_tasks, t_run, t_stop>>

\* DetectionStats()
DetectionStats ==
  [total_detections |-> 0, safe_count |-> 0, warning_count |-> 0,
   danger_count |-> 0, time_sum |-> 0]

\* len(self.cache) > 1000
CacheLimit == 1000

\* a variant of the lookup that finds no key
NoKeys(c) == {}

Keys(c) == {c[i].key : i \in 1..Len(c)}

\* self.cache[cache_key]
Lookup(c, key) == c[CHOOSE i \in 1..Len(c) : c[i].key = key].obj

\* a variant of the store that leaves the dict as it was
NotStored(c, key, obj) == c

\* self.cache[cache_key] = result: a new key goes last, a known key keeps its place
DictSet(c, key, obj) ==
  IF key \in Keys(c)
  THEN [i \in 1..Len(c) |-> IF c[i].key = key THEN [key |-> key, obj |-> obj] ELSE c[i]]
  ELSE Append(c, [key |-> key, obj |-> obj])

\* a variant of the cleanup that removes all entries but the newest
AllButNewest(c) == IF Len(c) > CacheLimit THEN Len(c) - 1 ELSE 0

\* the number of entries a cleanup removes from the front of the dict
items_to_remove(c) == IF Len(c) > CacheLimit THEN Len(c) \div 2 ELSE 0

\* a variant of the cleanup that removes the newest entries
OldestKept(c) == SubSeq(c, 1, Len(c) - items_to_remove(c))

_cleanup_cache(c) == SubSeq(c, items_to_remove(c) + 1, Len(c))

\* a variant of the update that counts nothing
NotCounted(s, result, processing_time) == s

\* a variant of the update that counts the total only
TotalOnly(s, result, processing_time) ==
  [s EXCEPT !.total_detections = @ + 1]

_update_statistics(s, result, processing_time) ==
  [total_detections |-> s.total_detections + 1,
   safe_count |-> s.safe_count + (IF result.level = "safe" THEN 1 ELSE 0),
   warning_count |-> s.warning_count + (IF result.level = "warning" THEN 1 ELSE 0),
   danger_count |-> s.danger_count + (IF result.level = "danger" THEN 1 ELSE 0),
   time_sum |-> s.time_sum + processing_time]

\* the result built in the except branch of detect_text
FallbackResult(detection_id) ==
  [level |-> "safe", score |-> 0, confidence |-> 10,
   message |-> "detection_service_error", reasons |-> <<Reason("system_error", 0, "")>>,
   suggestions |-> <<"confirm_manually">>, categories |-> <<>>, keywords |-> <<>>,
   detection_id |-> detection_id]

\* detect_text past the cache lookup: the result of _perform_detection is
\* stored, the cache cleaned up and the statistics updated
Computed(e, cache_key, result, processing_time) ==
  LET obj == Len(e.heap) + 1
      stored == DictSet(e.cache, cache_key, obj)
  IN  [cache |-> _cleanup_cache(stored), heap |-> Append(e.heap, result),
       statistics |-> _update_statistics(e.statistics, result, processing_time),
       obj |-> obj, kind |-> "computed",
       evicted |-> {stored[i].obj : i \in 1..items_to_remove(stored)},
       candidates |-> IF Len(stored) > CacheLimit THEN Keys(stored) ELSE {}]

\* a variant of the except branch that stores the fallback in the dict
FallbackStored(e, detection_id) ==
  [cache |-> Append(e.cache, [key |-> <<>>, obj |-> Len(e.heap) + 1]),
   heap |-> Append(e.heap, FallbackResult(detection_id)),
   statistics |-> e.statistics, obj |-> Len(e.heap) + 1,
   kind |-> "fallback", evicted |-> {}, candidates |-> {}]

\* the except branch of detect_text: the fallback is returned, and the dict
\* and the statistics are left as they are
Failed(e, detection_id) ==
  [cache |-> e.cache, heap |-> Append(e.heap, FallbackResult(detection_id)),
   statistics |-> e.statistics, obj |-> Len(e.heap) + 1,
   kind |-> "fallback", evicted |-> {}, candidates |-> {}]

\* detect_text, the decorated function itself, on the engine state
\* e = [cache, heap, statistics]: the state it leaves, the object it returns
\* (obj), how it came by it (kind), the objects its cleanup evicted and the
\* keys the cleanup chose them from (list(self.cache.keys()), taken only
\* when the dict is over its limit).
detect_text(e, text, detection_id, processing_time) ==
  IF EncodeRaises(text)
  THEN Failed(e, detection_id)
  ELSE
    Only({
      IF cache_key \in Keys(e.cache)
      THEN LET cached_result == Lookup(e.cache, cache_key) IN
           [cache |-> e.cache,
            heap |-> [e.heap EXCEPT ![cached_result].detection_id = detection_id],
            statistics |-> e.statistics, obj |-> cached_result,
            kind |-> "cached", evicted |-> {}, candidates |-> {}]
      ELSE Only({ Computed(e, cache_key, result, processing_time) :
                  result \in {IF text \in DOMAIN Detections
                              THEN [Detections[text] EXCEPT !.detection_id = detection_id]
                              ELSE _perform_detection(_preprocess_text(text),
                                                      detection_id)} })
      : cache_key \in {_generate_cache_key(text)} })

(***************************************************************************)
(* log_detection_result: the wrapper callers reach detect_text through.    *)
(* It awaits the function, then builds log_data, whose "timestamp" is      *)
(* time.time(); logging_config.py imports time only inside                 *)
(* log_execution_time, so the name is unbound here, the NameError is       *)
(* caught by the wrapper's own except clause and raised again.             *)
(***************************************************************************)
time_is_bound == FALSE

\* outcome: "returned", or the name of the exception the function raised
log_detection_result(outcome) ==
  IF outcome # "returned" THEN outcome
  ELSE IF time_is_bound THEN "returned"
  ELSE "NameError"

\* e_return before ensemble_predict has returned
NoVerdict ==
  [prediction |-> "none", confidence_num |-> 0, confidence_den |-> 1,
   vote_scores |-> [safe |-> 0, warning |-> 0, danger |-> 0], voted |-> FALSE]

(***************************************************************************)
(* Inputs.                                                                 *)
(***************************************************************************)
\* time.time() - start_time
ProcessingTimes == {1, 2}

\* detect_text calls in one behaviour
MaxCalls == 5

\* what is recorded of a completed call: the object the function returned and
\* its fields at that moment (seen), and what the caller of the wrapper got
CallRecord(text, detection_id, r, via) ==
  [text |-> text, id |-> detection_id, obj |-> r.obj, kind |-> r.kind,
   seen |-> r.heap[r.obj], evicted |-> r.evicted, candidates |-> r.candidates,
   outcome |-> log_detection_result("returned"), via |-> via]

InitEngine ==
  /\ cache = <<>>
  /\ heap = <<>>
  /\ statistics = DetectionStats
  /\ is_initialized = FALSE
  /\ closed = FALSE
  /\ uuid = 1
  /\ calls = <<>>
  /\ b_state = "idle"
  /\ b_texts = <<>>
  /\ b_task = <<>>
  /\ semaphore = 0
  /\ b_results = <<>>
  /\ b_return = <<>>
  /\ models = <<>>
  /\ e_state = "idle"
  /\ e_task = <<>>
  /\ e_results = <<>>
  /\ e_return = NoVerdict

\* One detect_text call through the wrapper, with its effect on the engine.
Call(text, via, s) ==
  /\ Len(calls) < MaxCalls
  /\ \E processing_time \in ProcessingTimes :
       \E r \in {detect_text([cache |-> cache, heap |-> heap, statistics |-> s],
                              text, uuid, processing_time)} :
           /\ cache' = r.cache
           /\ heap' = r.heap
           /\ statistics' = r.statistics
           /\ calls' = Append(calls, CallRecord(text, uuid, r, via))
  /\ uuid' = uuid + 1

\* await engine.detect_text(text), from a request handler
DetectText(text) ==
  /\ ~closed
  /\ Call(text, "single", statistics)
  /\ UNCHANGED <<is_initialized, closed>>
  /\ UNCHANGED batch_vars
  /\ UNCHANGED ensemble_vars
  /\ UNCHANGED function_vars
  /\ UNCHANGED training_vars

\* initialize(), run once by the application's lifespan right after construction:
\* a fresh DetectionStats, the test detection, and is_initialized only when the
\* test detection returned
Initialize ==
  /\ ~closed /\ calls = <<>> /\ b_state = "idle"
  /\ Call(TestText, "initialize", DetectionStats)
  /\ is_initialized' = (log_detection_result("returned") = "returned")
  /\ UNCHANGED closed
  /\ UNCHANGED batch_vars
  /\ UNCHANGED ensemble_vars
  /\ UNCHANGED function_vars
  /\ UNCHANGED training_vars

\* cleanup(), at shutdown
Cleanup ==
  /\ ~closed
  /\ b_state # "gathering" /\ \A i \in 1..Len(b_task) : b_task[i] \in {"done", "failed"}
  /\ cache' = <<>>
  /\ closed' = TRUE
  /\ UNCHANGED <<heap, statistics, is_initialized, uuid, calls>>
  /\ UNCHANGED batch_vars
  /\ UNCHANGED ensemble_vars
  /\ UNCHANGED function_vars
  /\ UNCHANGED training_vars

vars ==
  <<cache, heap, statistics, is_initialized, closed, uuid, calls,
    b_state, b_texts, b_task, semaphore, b_results, b_return,
    models, e_state, e_task, e_results, e_return, arg, out,
    t_tasks, t_run, t_stop>>

\* no function is applied on its own
NoFunction ==
  /\ arg = <<>>
  /\ out = <<>>

\* TrainingService.__init__: self.tasks = {}
NoTraining ==
  /\ t_tasks = <<>>
  /\ t_run = <<>>
  /\ t_stop = <<>>

Init == InitEngine /\ NoFunction /\ NoTraining

\* the engine under single requests
Next ==
  \/ Initialize
  \/ \E text \in SampleTexts : DetectText(text)
  \/ Cleanup

Spec == Init /\ [][Next]_vars

(***************************************************************************)
(* detect_batch: one detect_single task per text under Semaphore(3),       *)
(* gathered without return_exceptions.  A task is suspended only where it  *)
(* awaits the semaphore; detect_text and _perform_detection await nothing  *)
(* that suspends, so the detection itself is one step.                     *)
(***************************************************************************)
\* the arguments of detect_batch
BatchInputs ==
  { <<>>,
    <<WarningText, WarningText>>,
    <<TestText, WarningText, DangerText, SurrogateText>> }

\* a variant of the semaphore with one more permit
FourPermits == 3 + 1

\* asyncio.Semaphore(3)
SemaphoreValue == 3

DetectBatch(texts) ==
  /\ ~closed /\ b_state = "idle"
  /\ Len(calls) + Len(texts) <= MaxCalls
  /\ b_state' = "gathering"
  /\ b_texts' = texts
  /\ b_task' = [i \in 1..Len(texts) |-> "pending"]
  /\ semaphore' = SemaphoreValue
  /\ b_results' = [i \in 1..Len(texts) |-> 0]
  /\ UNCHANGED b_return
  /\ UNCHANGED engine_vars
  /\ UNCHANGED ensemble_vars
  /\ UNCHANGED function_vars
  /\ UNCHANGED training_vars

\* async with semaphore: acquire
Acquire(i) ==
  /\ b_task[i] = "pending"
  /\ semaphore > 0
  /\ semaphore' = semaphore - 1
  /\ b_task' = [b_task EXCEPT ![i] = "holding"]
  /\ UNCHANGED <<b_state, b_texts, b_results, b_return>>
  /\ UNCHANGED engine_vars
  /\ UNCHANGED ensemble_vars
  /\ UNCHANGED function_vars
  /\ UNCHANGED training_vars

\* return await self.detect_text(text, user_id), and the release on the way out
RunTask(i) ==
  /\ b_task[i] = "holding"
  /\ Call(b_texts[i], "batch", statistics)
  /\ semaphore' = semaphore + 1
  /\ IF log_detection_result("returned") = "returned"
     THEN /\ b_task' = [b_task EXCEPT ![i] = "done"]
          /\ b_results' = [b_results EXCEPT ![i] = calls'[Len(calls')].obj]
     ELSE /\ b_task' = [b_task EXCEPT ![i] = "failed"]
          /\ UNCHANGED b_results
  /\ UNCHANGED <<b_state, b_texts, b_return, is_initialized, closed>>
  /\ UNCHANGED ensemble_vars
  /\ UNCHANGED function_vars
  /\ UNCHANGED training_vars

\* results = await asyncio.gather(*tasks): the list of results in task order once
\* every task is done; the first exception as soon as a task has failed, which
\* the except clause of detect_batch turns into the empty list (the other tasks
\* are not cancelled and run on)
BatchReturn ==
  /\ b_state = "gathering"
  /\ \/ \E i \in 1..Len(b_task) : b_task[i] = "failed"
     \/ \A i \in 1..Len(b_task) : b_task[i] = "done"
  /\ b_return' = IF \E i \in 1..Len(b_task) : b_task[i] = "failed"
                 THEN <<>> ELSE b_results
  /\ b_state' = "returned"
  /\ UNCHANGED <<b_texts, b_task, semaphore, b_results>>
  /\ UNCHANGED engine_vars
  /\ UNCHANGED ensemble_vars
  /\ UNCHANGED function_vars
  /\ UNCHANGED training_vars

\* the engine under one batch request
NextBatch ==
  \/ Initialize
  \/ \E texts \in BatchInputs : DetectBatch(texts)
  \/ \E i \in 1..Len(b_task) : Acquire(i)
  \/ \E i \in 1..Len(b_task) : RunTask(i)
  \/ BatchReturn
  \/ Cleanup

SpecBatch == Init /\ [][NextBatch]_vars


\* how many single requests arrive around and during the batch
MaxSingles == 1

Singles == {k \in 1..Len(calls) : calls[k].via = "single"}

\* the engine under one batch request and single requests that arrive
\* before it, after it, or while its tasks are under way
NextMixed ==
  \/ NextBatch
  \/ Cardinality(Singles) < MaxSingles /\ \E text \in {TestText, DangerText} : DetectText(text)

SpecMixed == Init /\ [][NextMixed]_vars
(***************************************************************************)
(* The engine with a nearly full cache: the state after detect_text has    *)
(* computed Filler(1) .. Filler(Prefill), in this order, each in one unit  *)
(* of time.  calls records the calls made from then on.                    *)
(***************************************************************************)
\* one entry short of the limit
Prefill == CacheLimit - 1

InitCache ==
  /\ cache = [k \in 1..Prefill |-> [key |-> _generate_cache_key(Filler(k)), obj |-> k]]
  /\ heap = [k \in 1..Prefill |-> _perform_detection(_preprocess_text(Filler(k)), k)]
  /\ statistics = [total_detections |-> Prefill, safe_count |-> Prefill,
                   warning_count |-> 0, danger_count |-> 0, time_sum |-> Prefill]
  /\ is_initialized = FALSE
  /\ closed = FALSE
  /\ uuid = Prefill + 1
  /\ calls = <<>>
  /\ b_state = "idle"
  /\ b_texts = <<>>
  /\ b_task = <<>>
  /\ semaphore = 0
  /\ b_results = <<>>
  /\ b_return = <<>>
  /\ models = <<>>
  /\ e_state = "idle"
  /\ e_task = <<>>
  /\ e_results = <<>>
  /\ e_return = NoVerdict
  /\ NoFunction
  /\ NoTraining

\* the texts requested next: new ones, one that cannot be encoded, and the
\* oldest and the newest cached one
CacheTexts == {WarningText, DangerText, SurrogateText, Filler(1), Filler(Prefill)}

\* detect_text calls in one behaviour that starts from the nearly full cache
MaxCacheCalls == 4

NextCache == Len(calls) < MaxCacheCalls /\ \E text \in CacheTexts : DetectText(text)

SpecCache == InitCache /\ [][NextCache]_vars

(***************************************************************************)
(* AIModelManager: the ensemble of ai_models.py.  Confidences are in       *)
(* hundredths and weights in tenths, so vote scores are in thousandths;    *)
(* the confidence of a verdict is the fraction confidence_num /            *)
(* confidence_den of thousandths.  An opinion's model is the value of      *)
(* pred.get('model', 'unknown').                                           *)
(***************************************************************************)
\* self.configs, in insertion order
configs ==
  << [id |-> "chatglm", name |-> "ChatGLM-6B"],
     [id |-> "bert", name |-> "Chinese-BERT-wwm"],
     [id |-> "llama", name |-> "LLaMA-7B-Chinese"] >>

ConfigName(model_id) ==
  (CHOOSE c \in {configs[i] : i \in 1..Len(configs)} : c.id = model_id).name

\* str.lower() on the model names that occur
Lowered(model_name) ==
  CASE model_name = "ChatGLM-6B" -> "chatglm-6b"
    [] model_name = "Chinese-BERT-wwm" -> "chinese-bert-wwm"
    [] model_name = "LLaMA-7B-Chinese" -> "llama-7b-chinese"
    [] OTHER -> model_name

\* weights = {'chatglm': 0.4, 'bert': 0.3, 'llama': 0.3}
weights == [chatglm |-> 4, bert |-> 3, llama |-> 3]

\* weights.get(model_name.lower(), 0.1)
WeightOf(model_name) ==
  IF Lowered(model_name) \in DOMAIN weights THEN weights[Lowered(model_name)] ELSE 1

_get_fallback_result == [prediction |-> "warning", confidence |-> 50, model |-> "unknown"]

\* what a ChatGLM response is read for: whether it contains a danger word
\* and whether it contains a warning word
Responses == [danger : BOOLEAN, warning : BOOLEAN]

\* MockModel.chat answers with a warning word only
MockResponse == [danger |-> FALSE, warning |-> TRUE]

_parse_chatglm_response(response) ==
  IF response.danger
  THEN [prediction |-> "danger", confidence |-> 85, model |-> "unknown"]
  ELSE IF response.warning
  THEN [prediction |-> "warning", confidence |-> 70, model |-> "unknown"]
  ELSE [prediction |-> "safe", confidence |-> 90, model |-> "unknown"]

risk_levels == <<"safe", "warning", "danger">>

\* the largest softmax probability of three classes, sampled
Confidences == {40, 60, 90}

\* _predict_bert and _predict_llama past the forward pass
Classified(predicted_class, confidence) ==
  [prediction |-> risk_levels[predicted_class + 1], confidence |-> confidence,
   model |-> "unknown"]

\* What _predict_chatglm, _predict_bert or _predict_llama can return for a
\* loaded model m: the reading of the model's answer, or, when anything in
\* it raised, the fallback.  MockTokenizer's "to" takes one argument and is
\* called with two, so a mock BERT or LLaMA always raises.
Classifications(m) ==
  IF m.id = "chatglm"
  THEN {[failed |-> FALSE, result |-> _parse_chatglm_response(response)] :
          response \in IF m.mock THEN {MockResponse} ELSE Responses}
       \cup (IF m.mock THEN {} ELSE {[failed |-> TRUE, result |-> _get_fallback_result]})
  ELSE (IF m.mock THEN {}
        ELSE {[failed |-> FALSE, result |-> Classified(c, p)] :
                c \in 0..2, p \in Confidences})
       \cup {[failed |-> TRUE, result |-> _get_fallback_result]}

\* predict, given what the model's _predict_ function returned: the result
\* with result['model'] = config.name
predict(model_id, result) == [result EXCEPT !.model = ConfigName(model_id)]

\* the loop of _weighted_voting over predictions, from the i-th on
RECURSIVE VoteLoop(_, _, _)
VoteLoop(predictions, i, acc) ==
  IF i > Len(predictions) THEN acc
  ELSE
    LET pred == predictions[i]
        weight == WeightOf(pred.model)
    IN  VoteLoop(predictions, i + 1,
          [vote_scores |->
             [acc.vote_scores EXCEPT ![pred.prediction] = @ + weight * pred.confidence],
           total_confidence |-> acc.total_confidence + pred.confidence * weight])

\* a variant of the choice that ignores the scores
AlwaysSafe(vote_scores) == "safe"

\* max(vote_scores, key=vote_scores.get): the first of safe, warning, danger
\* that has the largest score
ArgMax(vote_scores) ==
  IF vote_scores.safe >= vote_scores.warning /\ vote_scores.safe >= vote_scores.danger
  THEN "safe"
  ELSE IF vote_scores.warning >= vote_scores.danger THEN "warning"
  ELSE "danger"

\* a variant of the vote that returns the level of the first opinion
FirstOpinion(predictions) ==
  [prediction |-> predictions[1].prediction,
   confidence_num |-> predictions[1].confidence, confidence_den |-> 1,
   vote_scores |-> [safe |-> 0, warning |-> 0, danger |-> 0], voted |-> TRUE]

_weighted_voting(predictions) ==
  LET v == VoteLoop(predictions, 1,
             [vote_scores |-> [safe |-> 0, warning |-> 0, danger |-> 0],
              total_confidence |-> 0])
  IN  [prediction |-> ArgMax(v.vote_scores),
       confidence_num |-> v.total_confidence, confidence_den |-> Len(predictions),
       vote_scores |-> v.vote_scores, voted |-> TRUE]

\* the fallback as ensemble_predict returns it: confidence 0.5, no vote_scores
FallbackVerdict ==
  [prediction |-> _get_fallback_result.prediction,
   confidence_num |-> 10 * _get_fallback_result.confidence, confidence_den |-> 1,
   vote_scores |-> [safe |-> 0, warning |-> 0, danger |-> 0], voted |-> FALSE]

\* a variant of the test that never finds the list empty
NeverEmpty(predictions) == FALSE

\* if not predictions
NoPredictions(predictions) == predictions = <<>>

\* ensemble_predict once gather has returned results: the results that are
\* no exceptions are the predictions
ensemble_predict(results) ==
  LET predictions == SelectSeq(results, LAMBDA r : ~r.exception) IN
  IF NoPredictions(predictions) THEN FallbackVerdict
  ELSE _weighted_voting([i \in 1..Len(predictions) |-> predictions[i].value])

\* an entry of gather's result list that no task has filled yet
Unsettled == [exception |-> FALSE, value |-> _get_fallback_result]

\* _load_models, the task the constructor creates: it awaits nothing that
\* suspends, so the three models appear together, each the pretrained model
\* or, when loading it raised, the mock
LoadModels ==
  /\ models = <<>>
  /\ \E mock \in [1..Len(configs) -> BOOLEAN] :
       models' = [i \in 1..Len(configs) |-> [id |-> configs[i].id, mock |-> mock[i]]]
  /\ UNCHANGED <<e_state, e_task, e_results, e_return>>
  /\ UNCHANGED engine_vars
  /\ UNCHANGED batch_vars
  /\ UNCHANGED function_vars
  /\ UNCHANGED training_vars

\* ensemble_predict up to the gather: one predict task per loaded model that
\* has a weight
EnsemblePredict ==
  /\ e_state # "gathering"
  /\ e_state' = "gathering"
  /\ e_task' = [i \in 1..Len(models) |-> "pending"]
  /\ e_results' = [i \in 1..Len(models) |-> Unsettled]
  /\ UNCHANGED <<models, e_return>>
  /\ UNCHANGED engine_vars
  /\ UNCHANGED batch_vars
  /\ UNCHANGED function_vars
  /\ UNCHANGED training_vars

\* the i-th predict task runs
Predict(i) ==
  /\ e_state = "gathering"
  /\ e_task[i] = "pending"
  /\ \E c \in Classifications(models[i]) :
       /\ e_task' = [e_task EXCEPT ![i] = IF c.failed THEN "failed" ELSE "succeeded"]
       /\ e_results' = [e_results EXCEPT
                          ![i] = [exception |-> FALSE,
                                  value |-> predict(models[i].id, c.result)]]
  /\ UNCHANGED <<models, e_state, e_return>>
  /\ UNCHANGED engine_vars
  /\ UNCHANGED batch_vars
  /\ UNCHANGED function_vars
  /\ UNCHANGED training_vars

\* a variant of the wait that ends with the first task that settles
FirstSettled(tasks) == \E i \in 1..Len(tasks) : tasks[i] # "pending"

\* await asyncio.gather(*tasks, return_exceptions=True): every task has settled
AllSettled(tasks) == \A i \in 1..Len(tasks) : tasks[i] # "pending"

\* gather returns once every task has settled; the rest of ensemble_predict
EnsembleReturn ==
  /\ e_state = "gathering"
  /\ AllSettled(e_task)
  /\ e_return' = ensemble_predict(e_results)
  /\ e_state' = "returned"
  /\ UNCHANGED <<models, e_task, e_results>>
  /\ UNCHANGED engine_vars
  /\ UNCHANGED batch_vars
  /\ UNCHANGED function_vars
  /\ UNCHANGED training_vars

NextEnsemble ==
  \/ LoadModels
  \/ EnsemblePredict
  \/ \E i \in 1..Len(e_task) : Predict(i)
  \/ EnsembleReturn

SpecEnsemble == Init /\ [][NextEnsemble]_vars


(***************************************************************************)
(* _weighted_voting applied on its own to a list of opinions.  As in       *)
(* ensemble_predict there is one opinion per source and there are at most  *)
(* as many opinions as configured models.  A source is named by a key of   *)
(* the weight table or by the name of a configured model.                  *)
(***************************************************************************)
VoteSources ==
  DOMAIN weights \cup {configs[i].name : i \in DOMAIN configs}

VoteConfidences == {70, 80, 90}

\* the orders in which some of the sources, each once, can have answered
SourceOrders ==
  {s \in UNION {[1..n -> VoteSources] : n \in 1..Len(configs)} :
     \A i, j \in DOMAIN s : i # j => s[i] # s[j]}

\* the list of prediction dicts of sources s with levels p and confidences c
Opinions(s, p, c) ==
  [i \in DOMAIN s |-> [prediction |-> p[i], confidence |-> c[i], model |-> s[i]]]

\* _weighted_voting is about to be given some list of opinions
InitVote ==
  /\ InitEngine
  /\ NoTraining
  /\ \E s \in SourceOrders :
       \E p \in [DOMAIN s -> {risk_levels[k] : k \in DOMAIN risk_levels}],
          c \in [DOMAIN s -> VoteConfidences] :
         arg = Opinions(s, p, c)
  /\ out = <<>>

\* ensemble_predict line 488: result = self._weighted_voting(predictions, weights)
WeightedVoting ==
  /\ out = <<>>
  /\ out' = <<_weighted_voting(arg)>>
  /\ UNCHANGED arg
  /\ UNCHANGED engine_vars
  /\ UNCHANGED batch_vars
  /\ UNCHANGED ensemble_vars
  /\ UNCHANGED training_vars

NextVote == WeightedVoting

SpecVote == InitVote /\ [][NextVote]_vars

(***************************************************************************)
(* The detectors applied on their own, as detect_text applies them to a    *)
(* text it has not cached: _preprocess_text, then _perform_detection.      *)
(* Each text is analysed as it is and with one more occurrence of a        *)
(* keyword it contains put in at some position.                            *)
(***************************************************************************)
\* "月入三万的理财秘诀，保证收益无风险！"
SpecExample ==
  <<26376, 20837, 19977, 19975, 30340, 29702, 36130, 31192, 35776, 65292,
    20445, 35777, 25910, 30410, 26080, 39118, 38505, 65281>>

\* "高收益12345678901": a keyword and an eleven-digit number
DigitsText == <<39640, 25910, 30410, 49, 50, 51, 52, 53, 54, 55, 56, 57, 48, 49>>

\* "高收益 赶紧": two keywords, one of them an urgency word
UrgentText == <<39640, 25910, 30410, 32, 36214, 32039>>

\* "微信 快速紧急限时": a contact word and three urgency words, all keywords
ContactUrgentText == <<24494, 20449, 32, 24555, 36895, 32039, 24613, 38480, 26102>>

\* "微信": a contact word and nothing else
ContactText == <<24494, 20449>>

\* "微信 100元": a contact word and an amount of money
ContactMoneyText == <<24494, 20449, 32, 49, 48, 48, 20803>>

\* "保证收益 微信": a keyword and a contact word
ContactKeywordText == <<20445, 35777, 25910, 30410, 32, 24494, 20449>>

\* "!!": repeated marks and nothing else
MarksText == <<33, 33>>

\* "神奇绝对!!": two adjectives and repeated marks
PatternText == <<31070, 22855, 32477, 23545, 33, 33>>

\* "保证收益 偏方 微信 赶紧立即马上": keywords of three categories, a contact
\* word and three urgency words
AllSignalsText ==
  <<20445, 35777, 25910, 30410, 32, 20559, 26041, 32, 24494, 20449, 32,
    36214, 32039, 31435, 21363, 39532, 19978>>

ScoreTexts ==
  {TestText, WarningText, DangerText, SpecExample, DigitsText, UrgentText,
   ContactUrgentText, ContactText, ContactMoneyText, ContactKeywordText,
   MarksText, PatternText, AllSignalsText}

\* every keyword of keywords_db
AllKeywords ==
  UNION {{keywords_db[i].keywords[k] : k \in 1..Len(keywords_db[i].keywords)} :
           i \in 1..Len(keywords_db)}

\* text with keyword put in after its first at characters
Insert(text, keyword, at) ==
  SubSeq(text, 1, at) \o keyword \o SubSeq(text, at + 1, Len(text))

InitScore ==
  /\ InitEngine
  /\ NoTraining
  /\ \E text \in ScoreTexts :
       \/ arg = [text |-> text, keyword |-> <<>>, at |-> 0]
       \/ \E keyword \in {kw \in AllKeywords : Contains(text, kw)} :
            \E at \in 0..Len(text) :
              arg = [text |-> text, keyword |-> keyword, at |-> at]
  /\ out = <<>>

\* detect_text lines 157-161: cleaned_text = self._preprocess_text(text);
\* result = await self._perform_detection(cleaned_text, detection_id)
Analyse(text) == _perform_detection(_preprocess_text(text), 0)

PerformDetection ==
  /\ out = <<>>
  /\ out' = <<[original |-> Analyse(arg.text),
               extended |-> Analyse(Insert(arg.text, arg.keyword, arg.at))]>>
  /\ UNCHANGED arg
  /\ UNCHANGED engine_vars
  /\ UNCHANGED batch_vars
  /\ UNCHANGED ensemble_vars
  /\ UNCHANGED training_vars

NextScore == PerformDetection

SpecScore == InitScore /\ [][NextScore]_vars

(***************************************************************************)
(* detect_text on a text it has not cached while one of the detectors      *)
(* raises (MemoryError inside re.search, a detector replaced by a failing  *)
(* one).  No text makes a detector raise of itself.                        *)
(***************************************************************************)
\* the five steps of _perform_detection, by the method each calls
Detectors ==
  {"_count_keyword_matches", "_detect_language_patterns", "_detect_contact_info",
   "_detect_urgency", "_detect_suspicious_numbers"}

\* _perform_detection has no try statement: what a detector raises leaves it
PerformRaises(fault) == fault \in Detectors

\* detect_text from line 157 on: the exception that leaves
\* _perform_detection is caught at line 179 and the fallback is returned
AnalyseWith(text, fault) ==
  IF PerformRaises(fault) THEN FallbackResult(0) ELSE Analyse(text)

InitFault ==
  /\ InitEngine
  /\ NoTraining
  /\ \E text \in ScoreTexts, fault \in Detectors \cup {"none"} :
       arg = [text |-> text, fault |-> fault]
  /\ out = <<>>

DetectWithFault ==
  /\ out = <<>>
  /\ out' = <<AnalyseWith(arg.text, arg.fault)>>
  /\ UNCHANGED arg
  /\ UNCHANGED engine_vars
  /\ UNCHANGED batch_vars
  /\ UNCHANGED ensemble_vars
  /\ UNCHANGED training_vars

NextFault == DetectWithFault

SpecFault == InitFault /\ [][NextFault]_vars

(***************************************************************************)
(* The engine under requests for texts that differ only in what            *)
(* _preprocess_text removes: the case of letters, runs of white space.     *)
(***************************************************************************)
\* "保证收益  高收益 稳赚不赔": WarningText with two spaces after the first word
SpacedText ==
  <<20445, 35777, 25910, 30410, 32, 32, 39640, 25910, 30410, 32, 31283, 36186, 19981, 36180>>

\* "微信QQ"
UpperText == <<24494, 20449, 81, 81>>

\* "微信qq"
LowerCaseText == <<24494, 20449, 113, 113>>

KeyTexts == {WarningText, SpacedText, UpperText, LowerCaseText}

NextKey == \E text \in KeyTexts : DetectText(text)

SpecKey == Init /\ [][NextKey]_vars
(***************************************************************************)
(* Properties.  Scores and confidences are exact hundredths here; the      *)
(* rounding of the floating-point sums in the source is not modelled.      *)
(***************************************************************************)
Returned(k) == calls[k].seen

SameVerdict(r1, r2) ==
  /\ r1.score = r2.score
  /\ r1.level = r2.level
  /\ r1.reasons = r2.reasons
  /\ r1.categories = r2.categories

\* the entry call j stored is not evicted by call j or any call up to call k
NotEvictedBetween(j, k) == \A m \in j..(k - 1) : calls[j].obj \notin calls[m].evicted

\* C1: every detect_text call, made through its log_detection_result wrapper,
\* hands a DetectionResult to its caller and raises nothing; a call in which an
\* internal step failed hands over the fallback: Safe, score 0.0, confidence 0.1.
C1_NeverRaises ==
  \A k \in 1..Len(calls) :
    /\ calls[k].outcome = "returned"
    /\ calls[k].kind = "fallback" =>
         /\ Returned(k).level = "safe"
         /\ Returned(k).score = 0
         /\ Returned(k).confidence = 10

\* C2: every result detect_text returns, computed, cached or fallback, has a
\* score between 0 and 1, and its level is Danger exactly when the score is at
\* least 0.7, Warning exactly when it is at least 0.4 and below 0.7, and Safe
\* exactly when it is below 0.4.
C2_ScoreAndLevel ==
  \A k \in 1..Len(calls) :
    LET r == Returned(k) IN
    /\ 0 <= r.score /\ r.score <= 100
    /\ r.level = "danger" <=> r.score >= 70
    /\ r.level = "warning" <=> (40 <= r.score /\ r.score < 70)
    /\ r.level = "safe" <=> r.score < 40

\* a computed result that reached the clamp, a cached one and a fallback
C2_Witness ==
  /\ \E k \in 1..Len(calls) :
       /\ calls[k].kind = "computed" /\ calls[k].text = DangerText
       /\ Returned(k).score = 100
  /\ \E k \in 1..Len(calls) : calls[k].kind = "cached"
  /\ \E k \in 1..Len(calls) : calls[k].kind = "fallback"

LastInsertion ==
  LET computed == {k \in 1..Len(calls) : calls[k].kind = "computed"}
  IN  CHOOSE k \in computed : \A m \in computed : m <= k

\* C4: after every detect_text call the cache holds at most 1000 entries, and
\* the entry of the fingerprint inserted last is in it.
C4_CacheBound ==
  /\ Len(cache) <= 1000
  /\ (\E k \in 1..Len(calls) : calls[k].kind = "computed") =>
       _generate_cache_key(calls[LastInsertion].text) \in Keys(cache)

\* the insertion that made the cache 1001 entries long
C4_Witness ==
  /\ calls # <<>>
  /\ calls[Len(calls)].kind = "computed"
  /\ Cardinality(calls[Len(calls)].evicted) = 500
  /\ Len(cache) = 501

\* C5: different detect_text calls return results with different detection
\* ids, also when the later call is a cache hit on the earlier call's text,
\* and the id of a result that was returned is not changed by a later call.
C5_IdsDistinctAndStable ==
  /\ \A j, k \in 1..Len(calls) : j # k => Returned(j).detection_id # Returned(k).detection_id
  /\ \A k \in 1..Len(calls) : heap[calls[k].obj].detection_id = Returned(k).detection_id

\* C6: detect_batch returns a list as long as its input whose i-th element is
\* the detection of the i-th text, in whatever order the detections complete
\* and also when one of them fails.
C6_BatchSameLengthAndOrder ==
  b_state = "returned" =>
    /\ Len(b_return) = Len(b_texts)
    /\ \A i \in 1..Len(b_return) :
         \E k \in 1..Len(calls) :
           /\ calls[k].via = "batch" /\ calls[k].text = b_texts[i]
           /\ calls[k].obj = b_return[i]

\* C7: during a detect_batch call at most 3 detect_text executions hold the
\* semaphore at the same time.
C7_AtMostThreeInFlight ==
  Cardinality({i \in 1..Len(b_task) : b_task[i] = "holding"}) <= 3

\* three tasks hold the semaphore and a fourth waits for it
C7_Witness ==
  /\ Cardinality({i \in 1..Len(b_task) : b_task[i] = "holding"}) = 3
  /\ \E i \in 1..Len(b_task) : b_task[i] = "pending"

\* C8: no returned result has an empty reasons list: when no detector gave a
\* reason, the list holds the one "no risk factors found" reason.
C8_ReasonsNeverEmpty ==
  \A k \in 1..Len(calls) : Returned(k).reasons # <<>>

\* the results that are no exceptions, as ensemble_predict collects them
UsableOpinions == SelectSeq(e_results, LAMBDA r : ~r.exception)

Succeeded ==
  LET kept == SelectSeq([i \in 1..Len(e_task) |-> i],
                        LAMBDA i : e_task[i] = "succeeded")
  IN  [n \in 1..Len(kept) |-> e_results[kept[n]].value]

\* C10: when one source's classification failed and another's succeeded, the
\* failed one adds nothing to the vote scores and is not counted: the verdict
\* is the weighted vote over the sources that succeeded.
C10_FailedSourceLeftOut ==
  ( /\ e_state = "returned"
    /\ \E i \in 1..Len(e_task) : e_task[i] = "failed"
    /\ \E i \in 1..Len(e_task) : e_task[i] = "succeeded" ) =>
  e_return = _weighted_voting(Succeeded)


(***************************************************************************)
(* Properties of the vote, the statistics, the score and the cache.        *)
(***************************************************************************)
\* the weight * confidence of the opinions of list l that predict level,
\* added up over the positions in I
RECURSIVE MassOver(_, _, _)
MassOver(l, level, I) ==
  IF I = {} THEN 0
  ELSE LET i == CHOOSE i \in I : TRUE
       IN  (IF l[i].prediction = level THEN WeightOf(l[i].model) * l[i].confidence ELSE 0)
           + MassOver(l, level, I \ {i})

Mass(l, level) == MassOver(l, level, DOMAIN l)

\* C11: for a non-empty list of opinions the vote adds each opinion's weight
\* times its confidence to the mass of the level it predicts, and returns a
\* level whose mass is the largest.
C11_VoteMasses ==
  out # <<>> =>
    /\ \A level \in DOMAIN out[1].vote_scores :
         out[1].vote_scores[level] = Mass(arg, level)
    /\ \A level \in DOMAIN out[1].vote_scores :
         Mass(arg, out[1].prediction) >= Mass(arg, level)

\* (chatglm, danger, 0.9), (bert, safe, 0.8), (llama, warning, 0.7): masses
\* 0.36, 0.24 and 0.21, verdict danger
C11_Witness ==
  /\ arg = << [prediction |-> "danger", confidence |-> 90, model |-> "chatglm"],
              [prediction |-> "safe", confidence |-> 80, model |-> "bert"],
              [prediction |-> "warning", confidence |-> 70, model |-> "llama"] >>
  /\ out # <<>>
  /\ out[1].vote_scores = [safe |-> 240, warning |-> 210, danger |-> 360]
  /\ out[1].prediction = "danger"

\* the calls so far that ran the detectors and ended at the given level
ComputedAt(level) ==
  {k \in 1..Len(calls) : calls[k].kind = "computed" /\ calls[k].seen.level = level}

\* C12: whatever single and batch requests have been served and however they
\* interleaved, total_detections is the sum of the three level counters;
\* every update added one to the total and one to the counter of the level
\* of the result it was made for.
C12_CountersAddUp ==
  /\ statistics.total_detections =
       statistics.safe_count + statistics.warning_count + statistics.danger_count
  /\ statistics.safe_count = Cardinality(ComputedAt("safe"))
  /\ statistics.warning_count = Cardinality(ComputedAt("warning"))
  /\ statistics.danger_count = Cardinality(ComputedAt("danger"))

\* a single request served while the tasks of a batch were under way, with
\* results of all three levels counted
C12_Witness ==
  /\ b_state = "gathering"
  /\ \E j, k, m \in 1..Len(calls) :
       /\ j < k /\ k < m
       /\ calls[j].via = "batch" /\ calls[k].via = "single" /\ calls[m].via = "batch"
  /\ statistics.safe_count > 0
  /\ statistics.warning_count > 0
  /\ statistics.danger_count > 0
  /\ C12_CountersAddUp

\* C13: for a text that contains a keyword, the text with one more
\* occurrence of that keyword, wherever it is put, scores no lower.
C13_MoreKeywordNoLowerScore ==
  (out # <<>> /\ arg.keyword # <<>>) =>
    out[1].extended.score >= out[1].original.score

\* C13, amended: the same with the occurrence put before or after the text.
C13_KeywordAtEitherEnd ==
  (out # <<>> /\ arg.keyword # <<>> /\ arg.at \in {0, Len(arg.text)}) =>
    out[1].extended.score >= out[1].original.score

\* "高收益12345678901" and "高收益12345678901高收益" both score 0.20
C13_Witness ==
  /\ out # <<>>
  /\ arg = [text |-> DigitsText, keyword |-> <<39640, 25910, 30410>>, at |-> Len(DigitsText)]
  /\ out[1].original.score = 20
  /\ out[1].extended.score = 20

\* the financial_fraud keywords that the cleaned text contains
FinancialMatches(text) ==
  _count_keyword_matches(_preprocess_text(text), financial_fraud)

RECURSIVE KeywordSum(_, _)
KeywordSum(text, i) ==
  IF i > Len(keywords_db) THEN 0
  ELSE Min(_count_keyword_matches(text, keywords_db[i].keywords) * 15, 60)
       + KeywordSum(text, i + 1)

\* the contributions of the detectors other than the contact detector
OtherSignals(text) ==
  KeywordSum(text, 1) + _detect_language_patterns(text) + _detect_urgency(text)
    + _detect_suspicious_numbers(text)

ContactCounted(result) ==
  \E k \in 1..Len(result.reasons) : result.reasons[k].kind = "contact_with_other_risk"

\* C15: the score is min(1, S), S being the sum of what the five detectors
\* contribute, the contact contribution counted when its condition held;
\* no other contribution that is not zero is left out.
C15_ScoreIsClampedSum ==
  out # <<>> =>
    LET text == _preprocess_text(arg.text)
        result == out[1].original
    IN  result.score =
          Min(100, OtherSignals(text)
                     + (IF ContactCounted(result) THEN _detect_contact_info(text) ELSE 0))

\* C17: the contact contribution is added exactly when some other detector
\* has found something, urgency and numeric claims included; a text with
\* contact information and nothing else scores 0.
C17_ContactIffOtherSignal ==
  out # <<>> =>
    LET text == _preprocess_text(arg.text)
        result == out[1].original
    IN  _detect_contact_info(text) > 0 =>
          /\ ContactCounted(result) <=> OtherSignals(text) > 0
          /\ OtherSignals(text) = 0 => result.score = 0

\* the aggregation over the detectors other than fault, which counts as zero
Remaining(text, fault) ==
  LET score(detector, value) == IF fault = detector THEN 0 ELSE value
      s1 == IF fault = "_count_keyword_matches" THEN NoFindings
            ELSE KeywordPass(text, 1, NoFindings)
      s2 == PatternStep(s1, score("_detect_language_patterns", _detect_language_patterns(text)))
      s3 == ContactStep(s2, score("_detect_contact_info", _detect_contact_info(text)))
      s4 == UrgencyStep(s3, score("_detect_urgency", _detect_urgency(text)))
      s5 == NumberStep(s4, score("_detect_suspicious_numbers", _detect_suspicious_numbers(text)))
  IN  BuildResult(s5, ClampScore(s5.risk_score), 0)

\* C16: when one detector raises, it counts as zero and the result is the one
\* built from what the remaining detectors contribute; the failure does not
\* replace the whole result.
C16_OneFailureTolerated ==
  (out # <<>> /\ arg.fault # "none") =>
    SameVerdict(out[1], Remaining(_preprocess_text(arg.text), arg.fault))

\* the call a step has made, if it has made one
CallMade == Len(calls') = Len(calls) + 1

\* the dict entry of the call made
NewEntry ==
  [key |-> _generate_cache_key(calls'[Len(calls')].text), obj |-> calls'[Len(calls')].obj]

\* a put that makes the dict exceed its limit removes exactly the oldest half
\* of the entries, in insertion order, and keeps the new entry; a hit leaves
\* every entry where it is
EvictionOrder ==
  CallMade =>
    /\ calls'[Len(calls')].kind = "cached" => cache' = cache
    /\ (calls'[Len(calls')].kind = "computed" /\ Len(cache) = CacheLimit) =>
         /\ calls'[Len(calls')].evicted = {cache[i].obj : i \in 1..(CacheLimit \div 2)}
         /\ cache' = Append(SubSeq(cache, CacheLimit \div 2 + 1, Len(cache)), NewEntry)

\* C18: when a put makes the cache exceed 1000 entries, the entries removed
\* are exactly the oldest half by insertion order; the removal is done before
\* the new entry is inserted, so that the new entry is not among the entries
\* the removal chooses from; a hit does not move an entry in that order.
C18_EvictedBeforeInsert ==
  [][EvictionOrder /\ (CallMade => NewEntry.key \notin calls'[Len(calls')].candidates)]_vars

\* C18, amended: the same, but the removal is done right after the new entry
\* is inserted: the new entry is among the 1001 entries the removal chooses
\* from and, being the newest, is not among the 500 removed.
C18_EvictedAfterInsert ==
  [][EvictionOrder /\
     ((CallMade /\ calls'[Len(calls')].evicted # {}) =>
        /\ NewEntry.key \in calls'[Len(calls')].candidates
        /\ Cardinality(calls'[Len(calls')].candidates) = CacheLimit + 1
        /\ NewEntry.obj \notin calls'[Len(calls')].evicted)]_vars

\* the oldest entry was hit and then removed by the put that filled the cache
C18_Witness ==
  \E j, k \in 1..Len(calls) :
    /\ j < k
    /\ calls[j].kind = "cached" /\ calls[j].text = Filler(1)
    /\ calls[k].kind = "computed" /\ calls[j].obj \in calls[k].evicted
    /\ _generate_cache_key(calls[k].text) \in calls[k].candidates
    /\ _generate_cache_key(calls[k].text) \in Keys(cache)

\* the vote mass of level when the opinion of the i-th configured source is
\* weighted by the entry of the weight table for that source, over the
\* sources in I
RECURSIVE TableMass(_, _)
TableMass(level, I) ==
  IF I = {} THEN 0
  ELSE LET i == CHOOSE i \in I : TRUE
       IN  (IF ~e_results[i].exception /\ e_results[i].value.prediction = level
            THEN weights[models[i].id] * e_results[i].value.confidence ELSE 0)
           + TableMass(level, I \ {i})

\* C19: ensemble_predict weights the opinion of each configured source with
\* the entry of the weight table for that source (chatglm 0.4, bert 0.3,
\* llama 0.3); 0.1 is used only for a source the table does not have.
C19_TableWeights ==
  (e_state = "returned" /\ e_return.voted) =>
    \A level \in DOMAIN e_return.vote_scores :
      e_return.vote_scores[level] = TableMass(level, DOMAIN e_results)

\* the reorderings of the positions of list l
Reorderings(l) ==
  {q \in [DOMAIN l -> DOMAIN l] : \A i, j \in DOMAIN l : i # j => q[i] # q[j]}

MaxTasks == 2

\* class TrainingStatus(Enum)
TrainingStatus ==
  [PENDING |-> "pending", RUNNING |-> "running", COMPLETED |-> "completed",
   FAILED |-> "failed", STOPPED |-> "stopped"]

\* TrainingTask(...) as create_training_task constructs it; metrics_history
\* holds the 'epoch' of each entry, logs grows with it; statuses is the
\* sequence of values that have been assigned to status; None is "None",
\* and a time read from datetime.now() is "now"
TrainingTask(model_type, config) ==
  [model_type |-> model_type, status |-> TrainingStatus.PENDING,
   statuses |-> <<TrainingStatus.PENDING>>,
   started_at |-> "None", completed_at |-> "None", current_epoch |-> 0,
   total_epochs |-> config.epochs, best_metric |-> 0,
   metrics_history |-> <<>>, error |-> "None"]

\* task.status = status
SetStatus(task, status) ==
  [task EXCEPT !.status = status, !.statuses = Append(@, status)]

\* f"不支持的模型类型: {task.model_type}", the text of the ValueError
Unsupported(model_type) == <<"unsupported model type", model_type>>

\* run_training lines 116-118, reached when the _train_* call returns
Completed(task) ==
  [task |-> [SetStatus(task, TrainingStatus.COMPLETED) EXCEPT
               !.completed_at = "now"],
   run |-> [at |-> "returned", epoch |-> task.current_epoch]]

\* run_training lines 122-127, the except branch
TrainingFailed(task, e) ==
  [task |-> [SetStatus(task, TrainingStatus.FAILED) EXCEPT
               !.error = e, !.completed_at = "now"],
   run |-> [at |-> "returned", epoch |-> task.current_epoch]]

\* for epoch in range(task.total_epochs): the head of the loop of _train_*,
\* up to the sleep; when the loop ends or breaks, _train_* returns
Loop(task, epoch) ==
  IF epoch >= task.total_epochs THEN Completed(task)
  ELSE IF task.status = TrainingStatus.STOPPED THEN Completed(task)
  ELSE [task |-> [task EXCEPT !.current_epoch = epoch + 1],
        run |-> [at |-> "sleep", epoch |-> epoch]]

\* the rest of the loop body, after the sleep: the metrics are recorded, and
\* _train_chatglm keeps the best val_accuracy, 0.55 + epoch * 0.025, here in
\* thousandths
Record(task, epoch) ==
  [task EXCEPT !.metrics_history = Append(@, epoch + 1),
               !.best_metric =
                 IF task.model_type = "chatglm" /\ 550 + 25 * epoch > @
                 THEN 550 + 25 * epoch ELSE @]

\* start_training: create_training_task, then
\* background_tasks.add_task(training_service.run_training, task_id, ...);
\* a coroutine is scheduled, then in the sleep of an epoch, then returned
CreateTrainingTask(model_type, config) ==
  /\ Len(t_tasks) < MaxTasks
  /\ t_tasks' = Append(t_tasks, TrainingTask(model_type, config))
  /\ t_run' = Append(t_run, [at |-> "scheduled", epoch |-> 0])
  /\ UNCHANGED t_stop
  /\ UNCHANGED engine_vars
  /\ UNCHANGED batch_vars
  /\ UNCHANGED ensemble_vars
  /\ UNCHANGED function_vars

\* run_training, from its start to the first sleep or to its return
RunTraining(task_id) ==
  /\ task_id \in DOMAIN t_tasks
  /\ t_run[task_id].at = "scheduled"
  /\ \E task \in {[SetStatus(t_tasks[task_id], TrainingStatus.RUNNING) EXCEPT
                     !.started_at = "now"]} :
       \E r \in {IF task.model_type \in {"chatglm", "bert", "llama"}
                 THEN Loop(task, 0)
                 ELSE TrainingFailed(task, Unsupported(task.model_type))} :
         /\ t_tasks' = [t_tasks EXCEPT ![task_id] = r.task]
         /\ t_run' = [t_run EXCEPT ![task_id] = r.run]
  /\ UNCHANGED t_stop
  /\ UNCHANGED engine_vars
  /\ UNCHANGED batch_vars
  /\ UNCHANGED ensemble_vars
  /\ UNCHANGED function_vars

\* the coroutine resumes from asyncio.sleep: the epoch is recorded and the
\* loop goes on to the next sleep, or ends and run_training returns
TrainEpoch(task_id) ==
  /\ task_id \in DOMAIN t_tasks
  /\ t_run[task_id].at = "sleep"
  /\ \E r \in {Loop(Record(t_tasks[task_id], t_run[task_id].epoch),
                    t_run[task_id].epoch + 1)} :
       /\ t_tasks' = [t_tasks EXCEPT ![task_id] = r.task]
       /\ t_run' = [t_run EXCEPT ![task_id] = r.run]
  /\ UNCHANGED t_stop
  /\ UNCHANGED engine_vars
  /\ UNCHANGED batch_vars
  /\ UNCHANGED ensemble_vars
  /\ UNCHANGED function_vars

\* stop_training(task_id); t_stop keeps the calls that returned True, each
\* with the epoch that was in progress
StopTraining(task_id) ==
  /\ IF task_id \in DOMAIN t_tasks
     THEN IF t_tasks[task_id].status = TrainingStatus.RUNNING
          THEN /\ t_tasks' =
                    [t_tasks EXCEPT
                       ![task_id] =
                         [SetStatus(@, TrainingStatus.STOPPED) EXCEPT
                            !.completed_at = "now"]]
               /\ t_stop' = Append(t_stop,
                              [task_id |-> task_id,
                               current_epoch |-> t_tasks[task_id].current_epoch])
          ELSE UNCHANGED <<t_tasks, t_stop>>
     ELSE UNCHANGED <<t_tasks, t_stop>>
  /\ UNCHANGED t_run
  /\ UNCHANGED engine_vars
  /\ UNCHANGED batch_vars
  /\ UNCHANGED ensemble_vars
  /\ UNCHANGED function_vars

\* the task ids a request may name: those created, and one that is unknown
TaskIds == 1..(MaxTasks + 1)

\* the requests give a model type that run_training knows or one it does
\* not, and epochs within Field(default=10, ge=1, le=100)
NextTraining ==
  \/ \E model_type \in {"chatglm", "bert", "llama", "gpt"}, epochs \in {1, 2} :
       CreateTrainingTask(model_type, [epochs |-> epochs])
  \/ \E task_id \in TaskIds : RunTraining(task_id)
  \/ \E task_id \in TaskIds : TrainEpoch(task_id)
  \/ \E task_id \in TaskIds : StopTraining(task_id)

\* the training service under requests that start and stop tasks
SpecTraining == Init /\ [][NextTraining]_vars

\* the same, where the server runs every background task and every sleep
\* comes to an end
FairTraining ==
  SpecTraining /\ \A task_id \in TaskIds :
                    WF_vars(RunTraining(task_id) \/ TrainEpoch(task_id))

(***************************************************************************)
(* Properties of ties, of the gather, of the cache key, of the result's    *)
(* lists, and of the training tasks.                                       *)
(***************************************************************************)
\* the position of a level in the order safe < warning < danger
Rank(level) == CHOOSE k \in DOMAIN risk_levels : risk_levels[k] = level

\* the levels whose vote score is the largest
Leaders(vote_scores) ==
  {l \in DOMAIN vote_scores : \A m \in DOMAIN vote_scores : vote_scores[l] >= vote_scores[m]}

\* C21: when two or more levels have the same, largest vote score, the level
\* _weighted_voting returns is not the one of lowest risk among them.
C21_TieNotTowardLowerRisk ==
  (out # <<>> /\ Cardinality(Leaders(out[1].vote_scores)) >= 2) =>
    \E l \in Leaders(out[1].vote_scores) : Rank(l) < Rank(out[1].prediction)

\* the loaded models ensemble_predict starts a classification for
Eligible == {i \in DOMAIN models : models[i].id \in DOMAIN weights}

\* C22: ensemble_predict starts one classification per eligible source, and
\* it produces its verdict only in a step from a state in which every one of
\* these classifications has settled, by success or by failure.
C22_VerdictAfterAllSettled ==
  [][ /\ (e_state # "gathering" /\ e_state' = "gathering") =>
           /\ Len(e_task') = Cardinality(Eligible)
           /\ \A i \in DOMAIN e_task' : e_task'[i] = "pending"
      /\ (e_return' # e_return \/ (e_state # "returned" /\ e_state' = "returned")) =>
           /\ e_state = "gathering"
           /\ \A i \in DOMAIN e_task : e_task[i] \in {"succeeded", "failed"} ]_vars

\* a verdict voted from three classifications, some failed and some succeeded
C22_Witness ==
  /\ e_state = "returned"
  /\ e_return.voted
  /\ Len(e_task) = Len(configs)
  /\ \E i, j \in DOMAIN e_task : e_task[i] = "failed" /\ e_task[j] = "succeeded"

\* C23: two texts with the same normalized form have the same cache key, so
\* that a request for the second, made after a request for the first whose
\* result is still cached, is served from the cache.
C23_SameNormalFormSameKey ==
  \A j, k \in 1..Len(calls) :
    ( /\ j < k
      /\ _preprocess_text(calls[j].text) = _preprocess_text(calls[k].text)
      /\ calls[j].kind = "computed"
      /\ NotEvictedBetween(j, k) ) =>
    /\ _generate_cache_key(calls[j].text) = _generate_cache_key(calls[k].text)
    /\ calls[k].kind = "cached"

\* no element of the list occurs at two positions
NoRepeats(list) == \A i, j \in DOMAIN list : i # j => list[i] # list[j]

\* C24: whatever detectors and categories fire, no suggestion occurs more
\* than once in the suggestions of the result.
C24_SuggestionsDistinct ==
  out # <<>> =>
    /\ NoRepeats(out[1].original.suggestions)
    /\ NoRepeats(out[1].extended.suggestions)

\* three categories, the contact step and the urgency step fire, the level
\* is danger: nine suggestions
C24_Witness ==
  /\ out # <<>>
  /\ arg.text = AllSignalsText
  /\ Len(out[1].original.suggestions) = 9
  /\ out[1].original.level = "danger"
  /\ Len(out[1].original.categories) = 3

\* C25: the keywords list of a result holds at most 5 terms, however many
\* categories fire and however many keywords match.
C25_AtMostFiveKeywords ==
  out # <<>> =>
    /\ Len(out[1].original.keywords) <= 5
    /\ Len(out[1].extended.keywords) <= 5

\* the calls, of a history of calls, that ran the detectors
ComputedCalls(history) == {k \in 1..Len(history) : history[k].kind = "computed"}

\* C26: a detect_text call that is served from the cache or ends in the
\* fallback leaves every counter of the statistics as it was, so that
\* total_detections is the number of calls that ran the detectors, not the
\* number of calls.
C26_OnlyMissesCounted ==
  [][CallMade =>
       /\ calls'[Len(calls')].kind \in {"cached", "fallback"} => statistics' = statistics
       /\ statistics'.total_detections = Cardinality(ComputedCalls(calls'))]_vars

\* three calls, one computed, one cached and one fallback: one detection counted
C26_Witness ==
  /\ Len(calls) = 3
  /\ \E j, k \in 1..Len(calls) : calls[j].kind = "cached" /\ calls[k].kind = "fallback"
  /\ statistics.total_detections = 1

\* C27: the fallback result is never stored in the cache: every cache entry
\* is a result of _perform_detection, with confidence 0.8, and after a call
\* has returned the fallback, no later call on the same text is served from
\* the cache or returns that fallback object.
C27_FallbackNeverCached ==
  /\ \A i \in 1..Len(cache) :
       /\ heap[cache[i].obj].confidence = 80
       /\ heap[cache[i].obj].message # FallbackResult(0).message
  /\ \A j, k \in 1..Len(calls) :
       (j < k /\ calls[j].kind = "fallback" /\ calls[k].text = calls[j].text) =>
         /\ calls[k].kind # "cached"
         /\ calls[k].obj # calls[j].obj

\* the text that cannot be encoded was requested twice while the cache
\* holds entries
C27_Witness ==
  \E j, k \in 1..Len(calls) :
    /\ j < k
    /\ calls[j].kind = "fallback" /\ calls[k].kind = "fallback"
    /\ calls[k].text = calls[j].text
    /\ cache # <<>>

\* the texts that the batch holds at two positions or more
Twice == {b_texts[i] : i \in {i \in DOMAIN b_texts : \E j \in DOMAIN b_texts : j # i /\ b_texts[j] = b_texts[i]}}

\* the calls of the batch on text that ran the detectors
BatchRuns(text) ==
  {k \in ComputedCalls(calls) : calls[k].via = "batch" /\ calls[k].text = text}

\* every task of the batch for text has run
TasksOver(text) ==
  \A i \in DOMAIN b_texts : b_texts[i] = text => b_task[i] \in {"done", "failed"}

\* C28: when a batch holds a text twice that was not cached before, then in
\* whatever order the tasks run the detectors run once for the text, the
\* cache gets one entry for it, and one detection is counted for it.
C28_RepeatedTextComputedOnce ==
  \A text \in Twice :
    /\ Cardinality(BatchRuns(text)) <= 1
    /\ Cardinality({i \in 1..Len(cache) : cache[i].key = _generate_cache_key(text)}) <= 1
    /\ TasksOver(text) =>
         /\ Cardinality(BatchRuns(text)) = 1
         /\ statistics.total_detections =
              1 + Cardinality({k \in ComputedCalls(calls) : calls[k].text # text})
         /\ closed \/ Cardinality({i \in 1..Len(cache) :
                                     cache[i].key = _generate_cache_key(text)}) = 1

\* both tasks for the repeated text have run: one ran the detectors, the
\* other was served from the cache
C28_Witness ==
  /\ b_texts = <<WarningText, WarningText>>
  /\ TasksOver(WarningText)
  /\ \E j, k \in 1..Len(calls) :
       /\ j < k
       /\ calls[j].via = "batch" /\ calls[j].kind = "computed"
       /\ calls[k].via = "batch" /\ calls[k].kind = "cached"

\* the three statuses in which a task ends
Terminal ==
  {TrainingStatus.COMPLETED, TrainingStatus.FAILED, TrainingStatus.STOPPED}

\* C29: once stop_training has returned True for a running task, the task's
\* status stays STOPPED (run_training changes it neither to COMPLETED nor to
\* FAILED), and no epoch later than the one in progress at the time of the
\* stop is recorded.
C29_StoppedStaysStopped ==
  \A i \in DOMAIN t_stop :
    /\ t_tasks[t_stop[i].task_id].status = TrainingStatus.STOPPED
    /\ \A k \in DOMAIN t_tasks[t_stop[i].task_id].metrics_history :
         t_tasks[t_stop[i].task_id].metrics_history[k] <= t_stop[i].current_epoch

\* the paths PENDING -> RUNNING -> {COMPLETED, FAILED, STOPPED} and their
\* beginnings
Paths ==
  {<<TrainingStatus.PENDING>>,
   <<TrainingStatus.PENDING, TrainingStatus.RUNNING>>}
    \cup {<<TrainingStatus.PENDING, TrainingStatus.RUNNING, s>> : s \in Terminal}

\* C30: every task on which run_training is started leaves RUNNING and
\* reaches COMPLETED, FAILED or STOPPED with completed_at set; the status
\* changes only along PENDING -> RUNNING -> {COMPLETED, FAILED, STOPPED}; a
\* task of an unsupported model type ends in FAILED with the error recorded;
\* and current_epoch never exceeds total_epochs.
C30_TaskLifecycle ==
  /\ \A task_id \in TaskIds :
       (task_id \in DOMAIN t_tasks /\ t_run[task_id].at # "scheduled")
         ~> /\ task_id \in DOMAIN t_tasks
            /\ t_tasks[task_id].status \in Terminal
            /\ t_tasks[task_id].completed_at # "None"
  /\ [](\A task_id \in DOMAIN t_tasks :
          /\ t_tasks[task_id].statuses \in Paths
          /\ (t_tasks[task_id].model_type \notin {"chatglm", "bert", "llama"}
                /\ t_run[task_id].at = "returned")
               => /\ t_tasks[task_id].status = TrainingStatus.FAILED
                  /\ t_tasks[task_id].error =
                       Unsupported(t_tasks[task_id].model_type)
          /\ t_tasks[task_id].current_epoch <= t_tasks[task_id].total_epochs)
=============================================================================
